---- MODULE Spec2Model ----
(***************************************************************************)
(* Model of src/main.py: the SAP / Zalaris timesheet reconciliation run.   *)
(*                                                                         *)
(* Representation.                                                         *)
(*   - A CSV text cell is a sequence of one-character strings; the empty   *)
(*     sequence is an empty cell.                                          *)
(*   - A DataFrame cell is either missing (NaN / NaT / None), written      *)
(*     NaN == << >>, or a one-element sequence <<v>> holding the value.    *)
(*   - Hours are counted in tenths of an hour (7.5 h is 75), so that the   *)
(*     float arithmetic of the program on the values of the model is exact *)
(*     integer arithmetic here.                                            *)
(*   - A date is a record [y, m, d]; a DataFrame is a sequence of rows.    *)
(*   - Columns the program only carries through (Personnel No., Status,    *)
(*     Activity Type, Agent, ID) are present as column names of the file   *)
(*     but hold no cell values in the model.                               *)
(***************************************************************************)
EXTENDS Integers, Sequences, FiniteSets, TLC

\* ---------------------------------------------------------------- bounds
\* Largest number of data rows of an input file in a whole run of main.
MaxRows == 2

\* Largest number of data rows of a file whose aggregation is followed alone.
MaxDfRows == 3

\* Largest number of data rows of each file of a comparison followed alone.
MaxCmpRows == 2

\* ------------------------------------------------------------- constants
\* THRESHOLD_HOURS = 7.5, in tenths of an hour.
THRESHOLD_HOURS == 75

\* ------------------------------------------------------ missing values
NaN == << >>

IsNa(c) == c = NaN

Val(c) == c[1]

\* ------------------------------------------------------------ text cells
Digits == {"0", "1", "2", "3", "4", "5", "6", "7", "8", "9"}

DigitVal(c) ==
    CASE c = "0" -> 0 [] c = "1" -> 1 [] c = "2" -> 2 [] c = "3" -> 3
      [] c = "4" -> 4 [] c = "5" -> 5 [] c = "6" -> 6 [] c = "7" -> 7
      [] c = "8" -> 8 [] c = "9" -> 9

DigitChar(n) ==
    CASE n = 0 -> "0" [] n = 1 -> "1" [] n = 2 -> "2" [] n = 3 -> "3"
      [] n = 4 -> "4" [] n = 5 -> "5" [] n = 6 -> "6" [] n = 7 -> "7"
      [] n = 8 -> "8" [] n = 9 -> "9"

AllDigits(s) == Len(s) > 0 /\ \A i \in 1..Len(s) : s[i] \in Digits

RECURSIVE DigitsToInt(_)
\* int() of a text of decimal digits.
DigitsToInt(s) ==
    IF s = << >> THEN 0
    ELSE 10 * DigitsToInt(SubSeq(s, 1, Len(s) - 1)) + DigitVal(s[Len(s)])

RECURSIVE IntToDigits(_)
\* str() of a non-negative integer.
IntToDigits(n) ==
    IF n < 10 THEN <<DigitChar(n)>>
    ELSE IntToDigits(n \div 10) \o <<DigitChar(n % 10)>>

\* format(n, "02d") of a non-negative integer.
Pad2(n) == IF n < 10 THEN <<"0">> \o IntToDigits(n) ELSE IntToDigits(n)

RECURSIVE Split(_, _)
\* str.split(sep): the pieces of s between the occurrences of the character sep.
Split(s, sep) ==
    IF \A i \in 1..Len(s) : s[i] # sep THEN <<s>>
    ELSE LET k == CHOOSE i \in 1..Len(s) :
                      s[i] = sep /\ \A j \in 1..(i - 1) : s[j] # sep
         IN  <<SubSeq(s, 1, k - 1)>> \o Split(SubSeq(s, k + 1, Len(s)), sep)

RECURSIVE StrReplaceUnit(_)
\* Series.str.replace(' H', '') on one cell: every occurrence of " H" removed;
\* a missing cell stays missing.
StrReplaceUnit(s) ==
    IF Len(s) < 2 THEN s
    ELSE IF s[1] = " " /\ s[2] = "H" THEN StrReplaceUnit(SubSeq(s, 3, Len(s)))
    ELSE <<s[1]>> \o StrReplaceUnit(Tail(s))

\* The unsigned decimal texts of the model: digits, optionally followed by a
\* point and one digit. The value is in tenths.
IsUnsignedNumber(s) ==
    LET p == Split(s, ".")
    IN  \/ Len(p) = 1 /\ AllDigits(p[1])
        \/ Len(p) = 2 /\ AllDigits(p[1]) /\ Len(p[2]) = 1 /\ AllDigits(p[2])

UnsignedTenths(s) ==
    LET p == Split(s, ".")
    IN  IF Len(p) = 1 THEN 10 * DigitsToInt(p[1])
        ELSE 10 * DigitsToInt(p[1]) + DigitsToInt(p[2])

\* pd.to_numeric(cell, errors='coerce'), also the float parse of read_csv:
\* a signed decimal text gives its value, anything else gives NaN.
ToNumeric(s) ==
    IF s = << >> THEN NaN
    ELSE IF s[1] = "-" /\ IsUnsignedNumber(Tail(s)) THEN <<0 - UnsignedTenths(Tail(s))>>
    ELSE IF s[1] = "+" /\ IsUnsignedNumber(Tail(s)) THEN <<UnsignedTenths(Tail(s))>>
    ELSE IF IsUnsignedNumber(s) THEN <<UnsignedTenths(s)>>
    ELSE NaN

\* --------------------------------------------------------------- calendar
IsLeap(y) == (y % 4 = 0) /\ ((y % 100 # 0) \/ (y % 400 = 0))

DaysInMonth(y, m) ==
    IF m = 2 THEN (IF IsLeap(y) THEN 29 ELSE 28)
    ELSE IF m \in {4, 6, 9, 11} THEN 30 ELSE 31

RECURSIVE DaysBeforeMonth(_, _)
DaysBeforeMonth(y, m) ==
    IF m = 1 THEN 0 ELSE DaysBeforeMonth(y, m - 1) + DaysInMonth(y, m - 1)

\* Proleptic Gregorian ordinal of a date (day 1 is 0001-01-01, a Monday).
Ordinal(y, m, d) ==
    365 * (y - 1) + ((y - 1) \div 4) - ((y - 1) \div 100) + ((y - 1) \div 400)
        + DaysBeforeMonth(y, m) + d

\* Day of the week of an ordinal, Monday = 0 ... Sunday = 6.
WeekdayOfOrdinal(o) == (o + 6) % 7

Weekday(y, m, d) == WeekdayOfOrdinal(Ordinal(y, m, d))

\* calendar.monthrange(year, month): <<weekday of day 1, number of days>>.
monthrange(y, m) == <<Weekday(y, m, 1), DaysInMonth(y, m)>>

IsDate(y, m, d) == y >= 1 /\ m \in 1..12 /\ d \in 1..DaysInMonth(y, m)

\* ------------------------------------------------------ parsing of cells
\* A date or time field of one or two digits, as %d, %m, %H, %M, %S accept it.
IsField12(s) == Len(s) \in {1, 2} /\ AllDigits(s)

\* Whether the text matches the format '%d/%m/%Y' and names a calendar date.
MatchesDMY(s) ==
    LET p == Split(s, "/")
    IN  /\ Len(p) = 3
        /\ IsField12(p[1]) /\ IsField12(p[2])
        /\ Len(p[3]) = 4 /\ AllDigits(p[3])
        /\ IsDate(DigitsToInt(p[3]), DigitsToInt(p[2]), DigitsToInt(p[1]))

\* The date a text in the format '%d/%m/%Y' names.
DateOfDMY(s) ==
    LET p == Split(s, "/")
    IN  [y |-> DigitsToInt(p[3]), m |-> DigitsToInt(p[2]), d |-> DigitsToInt(p[1])]

\* Whether pd.to_datetime(column, format='%d/%m/%Y') raises ValueError on the
\* cell: a missing cell parses to NaT, any other text must match the format.
DateCellRaises(s) == s # << >> /\ ~MatchesDMY(s)

\* pd.to_datetime(column, format='%d/%m/%Y') on a cell that does not raise.
ToDatetimeDMY(s) == IF s = << >> THEN NaN ELSE <<DateOfDMY(s)>>

\* pd.to_datetime(column, format='%d/%m/%Y', errors='coerce') on one cell.
ToDatetimeDMYCoerce(s) == IF s # << >> /\ MatchesDMY(s) THEN <<DateOfDMY(s)>> ELSE NaN

\* Whether the text matches the format '%H:%M:%S'.
MatchesHMS(s) ==
    LET p == Split(s, ":")
    IN  /\ Len(p) = 3
        /\ IsField12(p[1]) /\ IsField12(p[2]) /\ IsField12(p[3])
        /\ DigitsToInt(p[1]) \in 0..23
        /\ DigitsToInt(p[2]) \in 0..59
        /\ DigitsToInt(p[3]) \in 0..61

\* pd.to_datetime(column, format='%H:%M:%S', errors='coerce').dt.time on one cell.
ToTimeCoerce(s) ==
    IF s # << >> /\ MatchesHMS(s)
    THEN LET p == Split(s, ":")
         IN  <<[h |-> DigitsToInt(p[1]), mi |-> DigitsToInt(p[2]), s |-> DigitsToInt(p[3])]>>
    ELSE NaN

\* ---------------------------------------------------------- input schemas
SAPRequired ==
    {"Personnel No.", "Empl./appl.name", "Status/Proc.Ind.", "Date",
     "Att./abs. type", "A/A type text", "Number (unit)", "Start time",
     "End time", "Receiver", "Activity Type", "Short Text", "Agent"}

ZalarisRequired ==
    {"Personnel Number", "Name of employee or applicant", "Date",
     "Att./Absence type", "Hours", "Approval date"}

required_columns(is_sap) == IF is_sap THEN SAPRequired ELSE ZalarisRequired

FileType(is_sap) == IF is_sap THEN "SAP" ELSE "Zalaris"

\* validate_columns: the required columns the header lacks; FileFormatError is
\* raised exactly when the set is not empty.
validate_columns(columns, required) == {col \in required : col \notin columns}

\* The rename of read_and_preprocess: common_renames and, for SAP, sap_specific.
RenameOf(col, is_sap) ==
    CASE col = (IF is_sap THEN "Personnel No." ELSE "Personnel Number") -> "ID"
      [] col = (IF is_sap THEN "Empl./appl.name" ELSE "Name of employee or applicant")
             -> "Employee"
      [] col = (IF is_sap THEN "Att./abs. type" ELSE "Att./Absence type") -> "AA code"
      [] is_sap /\ col = "A/A type text" -> "AA text"
      [] is_sap /\ col = "Number (unit)" -> "Hours"
      [] OTHER -> col

RECURSIVE RenameColumns(_, _, _)
\* The cells of the columns cols of a row, under their new names.
RenameColumns(row, cols, is_sap) ==
    IF cols = {} THEN << >>
    ELSE LET k == CHOOSE c \in cols : TRUE
         IN  (RenameOf(k, is_sap) :> row[k]) @@ RenameColumns(row, cols \ {k}, is_sap)

\* DataFrame.rename(columns=...) on one row (a function from column to cell).
RenameRow(row, is_sap) == RenameColumns(row, DOMAIN row, is_sap)

\* The row with the cell of column col set to v.
SetCell(row, col, v) == (col :> v) @@ row

\* The sequence of the F(rows[i]). (SubSeq has TLC build the sequence once.)
MapRows(rows, F(_)) == SubSeq([i \in 1..Len(rows) |-> F(rows[i])], 1, Len(rows))

\* read_csv's type inference for the SAP hours column: the column is numeric
\* (float64, no .str accessor) when every cell is empty or a plain number.
HoursColumnIsNumeric(rows) ==
    \A i \in 1..Len(rows) :
        rows[i]["Hours"] = << >> \/ ~IsNa(ToNumeric(rows[i]["Hours"]))

\* Lines 76-78 on one SAP row.
ParseSapRow(row) ==
    LET r1 == SetCell(row, "Hours", ToNumeric(StrReplaceUnit(row["Hours"])))
        r2 == SetCell(r1, "Start time", ToTimeCoerce(row["Start time"]))
    IN  SetCell(r2, "End time", ToTimeCoerce(row["End time"]))

\* read_csv's float parse of the Zalaris hours column on one row.
ReadZalarisRow(row) == SetCell(row, "Hours", ToNumeric(row["Hours"]))

\* Line 70 on one row.
ParseDateRow(row) == SetCell(row, "Date", ToDatetimeDMY(row["Date"]))

Returned(df) == [outcome |-> "return", df |-> df, error |-> "", arg |-> {}]

Exited(msg, arg) == [outcome |-> "exit", df |-> << >>, error |-> msg, arg |-> arg]

Raised(msg) == [outcome |-> "raise", df |-> << >>, error |-> msg, arg |-> {}]

\* Lines 76-78: the SAP hours and clock times. The .str accessor raises
\* AttributeError on a numeric column; nothing else fails.
ParseSapColumns(rows) ==
    IF HoursColumnIsNumeric(rows) THEN Raised("AttributeError")
    ELSE Returned(MapRows(rows, ParseSapRow))

\* A tolerant parse of the approval date (errors='coerce'), which the program
\* does not use.
ParseApprovalColumnCoerce(rows) ==
    Returned(MapRows(rows,
        LAMBDA r : SetCell(r, "Approval date", ToDatetimeDMYCoerce(r["Approval date"]))))

\* Lines 80-84: the Zalaris approval date. One cell that does not match the
\* format raises ValueError, which is logged and ends the run.
ParseApprovalColumn(rows) ==
    IF \E i \in 1..Len(rows) : DateCellRaises(rows[i]["Approval date"])
    THEN Exited("Error parsing 'Approval date' column", {})
    ELSE Returned(MapRows(rows,
            LAMBDA r : SetCell(r, "Approval date", ToDatetimeDMY(r["Approval date"]))))

\* read_and_preprocess(file_path, is_sap). The result says how the call ends:
\* "return" with the table, "exit" for sys.exit(1) after logging error with arg,
\* "raise" for an exception that leaves the function.
read_and_preprocess(file, is_sap) ==
    IF file.status = "not_found" THEN Exited("File not found", {file.path})
    ELSE IF file.status = "empty" THEN Exited("Empty file", {file.path})
    ELSE IF file.status = "parser_error" THEN Exited("Error parsing CSV file", {file.path})
    ELSE IF validate_columns(file.columns, required_columns(is_sap)) # {}
    THEN Exited("input file is in the wrong format. Missing columns",
                {FileType(is_sap)} \cup validate_columns(file.columns, required_columns(is_sap)))
    ELSE LET renamed == MapRows(file.rows, LAMBDA r : RenameRow(r, is_sap))
             typed   == IF is_sap THEN renamed ELSE MapRows(renamed, ReadZalarisRow)
         IN  IF \E i \in 1..Len(typed) : DateCellRaises(typed[i]["Date"])
             THEN Exited("Error parsing 'Date' column", {})
             ELSE IF is_sap THEN ParseSapColumns(MapRows(typed, ParseDateRow))
                  ELSE ParseApprovalColumn(MapRows(typed, ParseDateRow))

\* ------------------------------------------------------------ aggregation
\* Lexicographic order of the employee names of the model.
Names == <<"Alice", "Bob">>

NameRank(n) == CHOOSE i \in 1..Len(Names) : Names[i] = n

DateLess(a, b) ==
    \/ a.y < b.y
    \/ a.y = b.y /\ a.m < b.m
    \/ a.y = b.y /\ a.m = b.m /\ a.d < b.d

\* Order of the (Date, Employee) index of the daily table.
DailyKeyLess(j, k) ==
    \/ DateLess(j[1], k[1])
    \/ j[1] = k[1] /\ NameRank(j[2]) < NameRank(k[2])

RECURSIVE SortDailyKeys(_)
\* The (Date, Employee) keys of the set S as the ascending sequence.
SortDailyKeys(S) ==
    IF S = {} THEN << >>
    ELSE LET lo == CHOOSE x \in S : \A z \in S \ {x} : DailyKeyLess(x, z)
         IN  <<lo>> \o SortDailyKeys(S \ {lo})

\* The rows of df, in order, that satisfy Keep.
RowsWhere(df, Keep(_)) == SelectSeq(df, Keep)

RECURSIVE SumHours(_)
\* The groupby aggregation 'sum': missing values are skipped and the sum of
\* no values is 0.
SumHours(rows) ==
    IF rows = << >> THEN 0
    ELSE (IF IsNa(rows[1]["Hours"]) THEN 0 ELSE Val(rows[1]["Hours"]))
            + SumHours(Tail(rows))

\* The value of column col in the first row of the group, missing or not.
FirstRowValue(rows, col) == rows[1][col]

\* The groupby aggregation 'first': the first value of the column in the
\* group that is not missing, in row order; missing when there is none.
First(rows, col) ==
    LET valid == SelectSeq(rows, LAMBDA r : ~IsNa(r[col]))
    IN  IF valid = << >> THEN NaN ELSE valid[1][col]

\* Rows that keep their group in a groupby on Date and Employee (dropna=True).
HasKey(r) == ~IsNa(r["Date"]) /\ ~IsNa(r["Employee"])

\* The group keys of pivot_table(index=['Date', 'Employee']).
DailyKeys(df) ==
    {<<Val(df[i]["Date"]), Val(df[i]["Employee"])>> : i \in {j \in 1..Len(df) : HasKey(df[j])}}

DailyGroup(df, k) ==
    RowsWhere(df, LAMBDA r : HasKey(r) /\ Val(r["Date"]) = k[1] /\ Val(r["Employee"]) = k[2])

FirstColumns(is_sap) == IF is_sap THEN {"AA text", "Receiver", "Short Text"} ELSE {"AA code"}

\* One row of the aggregation of line 92 (groupby(...).agg(agg_func)), for the
\* group of key k.
AggregatedRow(df, k, is_sap) ==
    LET g == DailyGroup(df, k)
    IN  ("Date" :> <<k[1]>>) @@ ("Employee" :> <<k[2]>>) @@ ("Hours" :> <<SumHours(g)>>)
        @@ (IF is_sap
            THEN ("AA text" :> First(g, "AA text")) @@ ("Receiver" :> First(g, "Receiver"))
                 @@ ("Short Text" :> First(g, "Short Text"))
            ELSE ("AA code" :> First(g, "AA code")))

RECURSIVE Restrict(_, _)
\* The cells of the columns cols of a row.
Restrict(row, cols) ==
    IF cols = {} THEN << >>
    ELSE LET c == CHOOSE x \in cols : TRUE
         IN  (c :> row[c]) @@ Restrict(row, cols \ {c})

\* pivot_table(dropna=True) leaves out the value columns whose entries are all
\* missing. The index columns stay, and the summed Hours is never missing.
KeptColumns(rows, is_sap) ==
    {"Date", "Employee", "Hours"}
    \cup {c \in FirstColumns(is_sap) : \E i \in 1..Len(rows) : ~IsNa(rows[i][c])}

\* Line 93 on one row.
WithInvestigate(row) == SetCell(row, "Investigate", Val(row["Hours"]) > THRESHOLD_HOURS)

\* create_pivot(df, is_sap) for a table with at least one whole key: one row
\* per (Date, Employee) group, in index order.
create_pivot(df, is_sap) ==
    LET agged == MapRows(SortDailyKeys(DailyKeys(df)), LAMBDA k : AggregatedRow(df, k, is_sap))
        kept  == KeptColumns(agged, is_sap)
    IN  MapRows(agged, LAMBDA r : WithInvestigate(Restrict(r, kept)))

\* Line 97: the YearMonth column, Date truncated to its month.
ToPeriod(date) == IF IsNa(date) THEN NaN ELSE <<[y |-> Val(date).y, m |-> Val(date).m]>>

AddYearMonth(df) == MapRows(df, LAMBDA r : SetCell(r, "YearMonth", ToPeriod(r["Date"])))

\* Line 100: str() of a monthly period, "YYYY-MM".
PeriodStr(p) == IntToDigits(p.y) \o <<"-">> \o Pad2(p.m)

\* Line 101: the integers of the text split at '-'.
YearOf(text) == DigitsToInt(Split(text, "-")[1])

MonthOf(text) == DigitsToInt(Split(text, "-")[2])

\* Lines 104-105: the texts f"{Year}-{Month:02d}-01" and f"{Year}-{Month:02d}-{last}".
FirstDayText(y, m) == IntToDigits(y) \o <<"-">> \o Pad2(m) \o <<"-", "0", "1">>

LastDayText(y, m) ==
    IntToDigits(y) \o <<"-">> \o Pad2(m) \o <<"-">> \o IntToDigits(monthrange(y, m)[2])

\* The ordinal of the date an ISO text "YYYY-MM-DD" names.
OrdinalOfIso(text) ==
    LET p == Split(text, "-")
    IN  Ordinal(DigitsToInt(p[1]), DigitsToInt(p[2]), DigitsToInt(p[3]))

\* np.busday_count(begin, end): the Monday-to-Friday days from begin up to,
\* not including, end.
busday_count(begin, end) ==
    Cardinality({o \in OrdinalOfIso(begin)..(OrdinalOfIso(end) - 1) : WeekdayOfOrdinal(o) < 5})

HasMonthlyKey(r) == ~IsNa(r["Employee"]) /\ ~IsNa(r["YearMonth"])

\* The group keys of pivot_table(index=['Employee', 'YearMonth']).
MonthlyKeys(df) ==
    {<<Val(df[i]["Employee"]), Val(df[i]["YearMonth"])>> :
        i \in {j \in 1..Len(df) : HasMonthlyKey(df[j])}}

MonthlyKeyLess(j, k) ==
    \/ NameRank(j[1]) < NameRank(k[1])
    \/ j[1] = k[1] /\ (j[2].y < k[2].y \/ (j[2].y = k[2].y /\ j[2].m < k[2].m))

RECURSIVE SortMonthlyKeys(_)
SortMonthlyKeys(S) ==
    IF S = {} THEN << >>
    ELSE LET lo == CHOOSE x \in S : \A z \in S \ {x} : MonthlyKeyLess(x, z)
         IN  <<lo>> \o SortMonthlyKeys(S \ {lo})

MonthlyGroup(df, k) ==
    RowsWhere(df, LAMBDA r :
        HasMonthlyKey(r) /\ Val(r["Employee"]) = k[1] /\ Val(r["YearMonth"]) = k[2])

\* One row of the monthly table: lines 98-108 for the group of key k.
MonthlyRow(df, k) ==
    LET hours == SumHours(MonthlyGroup(df, k))
        ym    == PeriodStr(k[2])
        year  == YearOf(ym)
        month == MonthOf(ym)
        wd    == busday_count(FirstDayText(year, month), LastDayText(year, month))
    IN  [Employee |-> <<k[1]>>, YearMonth |-> ym, Hours |-> <<hours>>,
         Year |-> year, Month |-> month, WorkingDays |-> wd,
         MaxWorkingHours |-> wd * THRESHOLD_HOURS,
         Investigate |-> hours > wd * THRESHOLD_HOURS]

\* calculate_monthly_hours(df), given df with its YearMonth column.
calculate_monthly_hours(df) ==
    MapRows(SortMonthlyKeys(MonthlyKeys(df)), LAMBDA k : MonthlyRow(df, k))

\* ------------------------------------------------------------- comparison
\* The index of a daily table after set_index(['Date', 'Employee']).
IndexOf(daily) == MapRows(daily, LAMBDA r : <<Val(r["Date"]), Val(r["Employee"])>>)

KeySet(daily) == {IndexOf(daily)[i] : i \in 1..Len(daily)}

\* The Hours of the row of key k, missing when the table has no such row.
HoursAt(daily, k) ==
    IF k \in KeySet(daily)
    THEN daily[CHOOSE i \in 1..Len(daily) : IndexOf(daily)[i] = k]["Hours"]
    ELSE NaN

\* The index of pd.concat(axis=1): the keys of the first table in its order,
\* then the keys only the second table has, in its order.
UnionIndex(df1, df2) ==
    IndexOf(df1) \o SelectSeq(IndexOf(df2), LAMBDA k : k \notin KeySet(df1))

\* A comparison that lets >= stand for >, which the program does not use.
ComparisonGe(a, b) ==
    IF ~IsNa(a) /\ ~IsNa(b) /\ Val(a) >= Val(b) THEN 1
    ELSE IF ~IsNa(a) /\ ~IsNa(b) /\ Val(a) < Val(b) THEN 2
    ELSE 0

\* A comparison that reads a missing value as the sentinel -1 hour, which the
\* program does not use.
ComparisonSentinel(a, b) ==
    LET x == IF IsNa(a) THEN -10 ELSE Val(a)
        y == IF IsNa(b) THEN -10 ELSE Val(b)
    IN  IF x > y THEN 1 ELSE IF x < y THEN 2 ELSE 0

\* Lines 119-124, np.select on one row: a comparison with a missing value is
\* false, so the default 0 is taken.
Comparison(a, b) ==
    IF ~IsNa(a) /\ ~IsNa(b) /\ Val(a) > Val(b) THEN 1
    ELSE IF ~IsNa(a) /\ ~IsNa(b) /\ Val(a) < Val(b) THEN 2
    ELSE 0

\* Lines 116-124: the row of key k of the combined table.
CombinedRow(df1, df2, k) ==
    ("Date" :> <<k[1]>>) @@ ("Employee" :> <<k[2]>>)
    @@ ("Zalaris Hours" :> HoursAt(df1, k)) @@ ("SAP Hours" :> HoursAt(df2, k))
    @@ ("Comparison" :> Comparison(HoursAt(df1, k), HoursAt(df2, k)))

\* compare_hours(df1, df2).
compare_hours(df1, df2) ==
    LET combined == MapRows(UnionIndex(df1, df2), LAMBDA k : CombinedRow(df1, df2, k))
    IN  SelectSeq(combined, LAMBDA r : r["Comparison"] # 0)

\* ------------------------------------------------------------------ state
VARIABLES
    pc,             \* the statement of main that runs next
    src,            \* position of the loop of line 143 in ['SAP', 'Zalaris']
    raw,            \* the file read at line 27, as read_csv returns it
    df,             \* df of main
    daily_df,       \* daily_df of main
    monthly_df,     \* monthly_df of main
    results,        \* the dict results of main
    comparison_df,  \* comparison_df of main
    written,        \* the files to_csv has written, in order
    log,            \* the records logged at error, warning and info level
    trace,          \* the calls of main that have returned, in order
    exitCode        \* the exit status of the process, missing while it runs

vars == <<pc, src, raw, df, daily_df, monthly_df, results, comparison_df,
          written, log, trace, exitCode>>

Sources == <<"SAP", "Zalaris">>

source == Sources[src]

is_sap == source = "SAP"

InputPath(s) == IF s = "SAP" THEN "data/SAP Hours.csv" ELSE "data/Zalaris Hours.csv"

PivotPath(s) == IF s = "SAP" THEN "data/SAP Hours_pivot.csv" ELSE "data/Zalaris Hours_pivot.csv"

MonthlyPath(s) ==
    IF s = "SAP" THEN "data/SAP Hours_monthly.csv" ELSE "data/Zalaris Hours_monthly.csv"

ComparisonPath == "data/Comparison_Results.csv"

DailyName(s) == IF s = "SAP" THEN "SAP_Daily" ELSE "Zalaris_Daily"

MonthlyName(s) == IF s = "SAP" THEN "SAP_Monthly" ELSE "Zalaris_Monthly"

NoFile == [path |-> "", status |-> "none", columns |-> {}, rows |-> << >>]

LogRecord(level, msg, arg) == [level |-> level, msg |-> msg, arg |-> arg]

\* Lines 155-157: the handler of the loop body logs the exception and exits.
ProcessingError(s, exc) == LogRecord("error", "Error processing data", {s, exc})

\* sys.exit(1), and an exception nothing catches: the process ends with status 1.
Exit1 == pc' = "exit" /\ exitCode' = <<1>>

\* The outcomes of DataFrame.to_csv in save_to_csv.
SaveOutcomes == {"ok", "PermissionError", "IOError"}

\* The records save_to_csv logs for an outcome (lines 131, 133, 136).
SaveLog(outcome, path) ==
    CASE outcome = "ok" -> LogRecord("info", "File saved successfully", {path})
      [] outcome = "PermissionError" ->
            LogRecord("error", "Permission denied when saving file", {path})
      [] OTHER -> LogRecord("error", "IOError when saving file", {path})

\* ----------------------------------------------------------------- inputs
\* Texts of the input cells.
Txt10Jan24 == <<"1", "0", "/", "0", "1", "/", "2", "0", "2", "4">>

Txt11Jan24 == <<"1", "1", "/", "0", "1", "/", "2", "0", "2", "4">>

Txt29Feb24 == <<"2", "9", "/", "0", "2", "/", "2", "0", "2", "4">>

Txt3Apr23 == <<"3", "/", "0", "4", "/", "2", "0", "2", "3">>

TxtIsoDate == <<"2", "0", "2", "4", "-", "0", "1", "-", "1", "0">>

Txt30Feb24 == <<"3", "0", "/", "0", "2", "/", "2", "0", "2", "4">>

Txt8H == <<"8", " ", "H">>

Txt5H == <<"5", " ", "H">>

Txt0H == <<"0", " ", "H">>

Txt7p5H == <<"7", ".", "5", " ", "H">>

TxtMinus3H == <<"-", "3", " ", "H">>

TxtXH == <<"x", " ", "H">>

Txt2 == <<"2">>

Txt5 == <<"5">>

Txt8 == <<"8">>

Txt7p5 == <<"7", ".", "5">>

TxtMinus3 == <<"-", "3">>

Txt0800 == <<"0", "8", ":", "0", "0", ":", "0", "0">>

Txt1600 == <<"1", "6", ":", "0", "0", ":", "0", "0">>

Txt2500 == <<"2", "5", ":", "0", "0", ":", "0", "0">>

\* A data row of 'SAP Hours.csv': the cells of the columns the program reads.
SapRow(date, emp, hours, aa, recv, short, start, end) ==
    ("Date" :> date) @@ ("Empl./appl.name" :> emp) @@ ("Number (unit)" :> hours)
    @@ ("A/A type text" :> aa) @@ ("Receiver" :> recv) @@ ("Short Text" :> short)
    @@ ("Start time" :> start) @@ ("End time" :> end)

\* A data row of 'Zalaris Hours.csv'.
ZalarisRow(date, emp, hours, code, approval) ==
    ("Date" :> date) @@ ("Name of employee or applicant" :> emp) @@ ("Hours" :> hours)
    @@ ("Att./Absence type" :> code) @@ ("Approval date" :> approval)

SeqsUpTo(S, n) == UNION {[1..k -> S] : k \in 1..n}

\* A readable file with the whole header and the rows given.
OkFile(s, rows) ==
    [path |-> InputPath(s), status |-> "ok",
     columns |-> required_columns(s = "SAP"), rows |-> rows]

\* The files main cannot read: absent, empty, malformed, or lacking columns.
BadFiles(s, row) ==
    {[path |-> InputPath(s), status |-> st, columns |-> {}, rows |-> << >>] :
        st \in {"not_found", "empty", "parser_error"}}
    \cup {[path |-> InputPath(s), status |-> "ok",
           columns |-> required_columns(s = "SAP")
                            \ {"Agent", "Activity Type", "Personnel Number"},
           rows |-> <<row>>]}

\* Rows of the input files of a whole run.
SapMainRows ==
    {SapRow(Txt10Jan24, <<"Alice">>, Txt8H, <<"Work">>, <<"R1">>, <<"S1">>, Txt0800, Txt1600),
     SapRow(Txt10Jan24, <<"Alice">>, TxtMinus3H, NaN, NaN, NaN, NaN, Txt2500),
     SapRow(Txt29Feb24, <<"Bob">>, Txt7p5H, <<"Leave">>, NaN, <<"S2">>, Txt0800, NaN),
     SapRow(Txt10Jan24, NaN, Txt2, <<"Work">>, <<"R1">>, NaN, NaN, NaN),
     SapRow(Txt29Feb24, <<"Bob">>, TxtXH, NaN, <<"R2">>, NaN, Txt1600, Txt0800),
     SapRow(TxtIsoDate, <<"Bob">>, Txt8H, <<"Work">>, <<"R1">>, <<"S1">>, Txt0800, Txt1600)}

ZalarisMainRows ==
    {ZalarisRow(Txt10Jan24, <<"Alice">>, Txt5, <<"800">>, Txt11Jan24),
     ZalarisRow(Txt10Jan24, <<"Alice">>, Txt8, NaN, NaN),
     ZalarisRow(Txt11Jan24, <<"Bob">>, TxtMinus3, <<"810">>, TxtIsoDate),
     ZalarisRow(Txt30Feb24, <<"Bob">>, Txt7p5, <<"800">>, Txt11Jan24),
     ZalarisRow(Txt29Feb24, <<"Bob">>, Txt7p5, <<"810">>, NaN)}

MainRows(s) == IF s = "SAP" THEN SapMainRows ELSE ZalarisMainRows

\* The files 'data/<source> Hours.csv' of a whole run.
InputFiles(s) ==
    {OkFile(s, rows) : rows \in SeqsUpTo(MainRows(s), MaxRows)}
    \cup BadFiles(s, CHOOSE r \in MainRows(s) : TRUE)

\* ----------------------------------------------------------------- main
Init ==
    /\ pc = "read"
    /\ src = 1
    /\ raw = NoFile
    /\ df = << >>
    /\ daily_df = << >>
    /\ monthly_df = << >>
    /\ results = << >>
    /\ comparison_df = << >>
    /\ written = << >>
    /\ log = << >>
    /\ trace = << >>
    /\ exitCode = NaN

\* Line 145: read_and_preprocess on the file of the source, one of files.
ReadFrom(files) ==
    /\ pc = "read"
    /\ \E file \in files :
        LET r == read_and_preprocess(file, is_sap)
        IN  /\ raw' = file
            /\ IF r.outcome = "return"
               THEN /\ df' = r.df
                    /\ pc' = "pivot"
                    /\ trace' = Append(trace, <<"read_and_preprocess", source>>)
                    /\ UNCHANGED <<log, exitCode>>
               ELSE /\ log' = Append(log, IF r.outcome = "exit"
                                          THEN LogRecord("error", r.error, r.arg)
                                          ELSE ProcessingError(source, r.error))
                    /\ Exit1
                    /\ UNCHANGED <<df, trace>>
    /\ UNCHANGED <<src, daily_df, monthly_df, results, comparison_df, written>>

ReadAndPreprocess == ReadFrom(InputFiles(source))

\* Line 147: create_pivot. When no row of df has a whole key the pivot table
\* has no rows, so dropna leaves it no value column and line 93 raises
\* KeyError, which the handler of lines 155-157 turns into exit status 1.
CreatePivot ==
    /\ pc = "pivot"
    /\ IF DailyKeys(df) # {}
       THEN /\ daily_df' = create_pivot(df, is_sap)
            /\ pc' = "save_daily"
            /\ trace' = Append(trace, <<"create_pivot", source>>)
            /\ UNCHANGED <<log, exitCode>>
       ELSE /\ log' = Append(log, ProcessingError(source, "KeyError"))
            /\ Exit1
            /\ UNCHANGED <<daily_df, trace>>
    /\ UNCHANGED <<src, raw, df, monthly_df, results, comparison_df, written>>

\* A save_to_csv that logs the error and returns, which the program does not do.
SaveSwallows(outcome) == FALSE

\* Lines 132-137: save_to_csv raises again what to_csv raised.
SaveRaises(outcome) == outcome # "ok"

\* save_to_csv called in the loop body (lines 148 and 151), then the handler
\* of lines 155-157 when it raises.
SaveInLoop(path, call, next) ==
    \E outcome \in SaveOutcomes :
        IF SaveRaises(outcome)
        THEN /\ log' = log \o <<SaveLog(outcome, path), ProcessingError(source, outcome)>>
             /\ Exit1
             /\ UNCHANGED <<written, trace>>
        ELSE /\ written' = IF outcome = "ok" THEN Append(written, path) ELSE written
             /\ log' = Append(log, SaveLog(outcome, path))
             /\ pc' = next
             /\ trace' = Append(trace, <<call, source>>)
             /\ UNCHANGED exitCode

\* Line 148.
SaveDaily ==
    /\ pc = "save_daily"
    /\ SaveInLoop(PivotPath(source), "save_daily", "monthly")
    /\ UNCHANGED <<src, raw, df, daily_df, monthly_df, results, comparison_df>>

\* Line 150: calculate_monthly_hours, which adds the YearMonth column to df.
\* Line 147 has returned, so df has a row with a whole key and the monthly
\* table has a row.
CalculateMonthly ==
    /\ pc = "monthly"
    /\ df' = AddYearMonth(df)
    /\ monthly_df' = calculate_monthly_hours(df')
    /\ pc' = "save_monthly"
    /\ trace' = Append(trace, <<"calculate_monthly_hours", source>>)
    /\ UNCHANGED <<log, exitCode>>
    /\ UNCHANGED <<src, raw, daily_df, results, comparison_df, written>>

\* Line 151.
SaveMonthly ==
    /\ pc = "save_monthly"
    /\ SaveInLoop(MonthlyPath(source), "save_monthly", "store")
    /\ UNCHANGED <<src, raw, df, daily_df, monthly_df, results, comparison_df>>

\* Lines 153-154, and the step of the loop of line 143.
StoreResults ==
    /\ pc = "store"
    /\ results' = (DailyName(source) :> daily_df) @@ (MonthlyName(source) :> monthly_df)
                    @@ results
    /\ IF src < Len(Sources)
       THEN src' = src + 1 /\ pc' = "read"
       ELSE src' = src /\ pc' = "compare"
    /\ UNCHANGED <<raw, df, daily_df, monthly_df, comparison_df, written, log, trace,
                   exitCode>>

\* Lines 159-160 and 162-164.
CompareHours ==
    /\ pc = "compare"
    /\ IF {"SAP_Daily", "Zalaris_Daily"} \subseteq DOMAIN results
       THEN /\ comparison_df' = compare_hours(results["SAP_Daily"], results["Zalaris_Daily"])
            /\ pc' = "save_comparison"
            /\ trace' = Append(trace, <<"compare_hours", "both">>)
            /\ UNCHANGED <<log, exitCode>>
       ELSE /\ log' = Append(log, LogRecord("warning",
                          "Unable to perform comparison due to missing data", {}))
            /\ Exit1
            /\ UNCHANGED <<comparison_df, trace>>
    /\ UNCHANGED <<src, raw, df, daily_df, monthly_df, results, written>>

\* Line 161: save_to_csv outside any handler; what it raises ends the process.
SaveComparison ==
    /\ pc = "save_comparison"
    /\ \E outcome \in SaveOutcomes :
        /\ log' = Append(log, SaveLog(outcome, ComparisonPath))
        /\ IF SaveRaises(outcome)
           THEN Exit1 /\ UNCHANGED <<written, trace>>
           ELSE /\ written' = IF outcome = "ok" THEN Append(written, ComparisonPath)
                              ELSE written
                /\ trace' = Append(trace, <<"save_comparison", "both">>)
                /\ pc' = "done"
                /\ exitCode' = <<0>>
    /\ UNCHANGED <<src, raw, df, daily_df, monthly_df, results, comparison_df>>

Next ==
    \/ ReadAndPreprocess
    \/ CreatePivot
    \/ SaveDaily
    \/ CalculateMonthly
    \/ SaveMonthly
    \/ StoreResults
    \/ CompareHours
    \/ SaveComparison

Spec == Init /\ [][Next]_vars

\* ------------------------------------ runs that follow the aggregation
\* Rows of the files of these runs.
SapAggRows ==
    {SapRow(Txt10Jan24, <<"Alice">>, Txt8H, <<"Work">>, <<"R1">>, <<"S1">>, Txt0800, Txt1600),
     SapRow(Txt10Jan24, <<"Alice">>, TxtMinus3H, NaN, NaN, NaN, NaN, Txt2500),
     SapRow(Txt10Jan24, <<"Alice">>, TxtXH, <<"Leave">>, <<"R2">>, NaN, Txt0800, NaN),
     SapRow(Txt10Jan24, <<"Alice">>, NaN, NaN, <<"R1">>, <<"S2">>, NaN, NaN),
     SapRow(Txt29Feb24, <<"Alice">>, Txt7p5H, <<"Work">>, NaN, NaN, Txt0800, Txt1600),
     SapRow(Txt3Apr23, <<"Bob">>, Txt0H, NaN, NaN, <<"S1">>, NaN, NaN),
     SapRow(Txt10Jan24, NaN, Txt5H, <<"Work">>, <<"R1">>, <<"S1">>, Txt0800, Txt1600),
     SapRow(NaN, <<"Alice">>, Txt5H, <<"Work">>, <<"R1">>, <<"S1">>, Txt0800, Txt1600)}

ZalarisAggRows ==
    {ZalarisRow(Txt10Jan24, <<"Alice">>, Txt5, <<"800">>, Txt11Jan24),
     ZalarisRow(Txt10Jan24, <<"Alice">>, Txt8, NaN, NaN),
     ZalarisRow(Txt10Jan24, <<"Alice">>, NaN, <<"810">>, Txt11Jan24),
     ZalarisRow(Txt10Jan24, <<"Bob">>, TxtMinus3, NaN, Txt11Jan24),
     ZalarisRow(Txt29Feb24, <<"Bob">>, Txt7p5, <<"800">>, NaN),
     ZalarisRow(Txt3Apr23, NaN, Txt5, <<"800">>, Txt11Jan24),
     ZalarisRow(NaN, <<"Bob">>, Txt5, <<"810">>, Txt11Jan24)}

\* The SAP file of the runs that vary the Zalaris file.
SapFileBefore ==
    OkFile("SAP", <<SapRow(Txt10Jan24, <<"Alice">>, Txt8H, <<"Work">>, <<"R1">>, <<"S1">>,
                           Txt0800, Txt1600)>>)

\* The Zalaris file of the runs that vary the SAP file.
ZalarisFileAfter ==
    OkFile("Zalaris", <<ZalarisRow(Txt10Jan24, <<"Alice">>, Txt5, <<"800">>, Txt11Jan24)>>)

\* The file of source s in these runs, the file before having been read for
\* SAP: either file varies while the other is fixed.
AggFiles(s, before) ==
    IF s = "SAP"
    THEN {OkFile(s, rows) : rows \in SeqsUpTo(SapAggRows, MaxDfRows)}
    ELSE IF before = SapFileBefore
    THEN {OkFile(s, rows) : rows \in SeqsUpTo(ZalarisAggRows, MaxDfRows)}
    ELSE {ZalarisFileAfter}

ReadForAggregation == ReadFrom(AggFiles(source, raw))

NextAggregate ==
    \/ ReadForAggregation
    \/ CreatePivot
    \/ SaveDaily
    \/ CalculateMonthly
    \/ SaveMonthly
    \/ StoreResults
    \/ CompareHours
    \/ SaveComparison

SpecAggregate == Init /\ [][NextAggregate]_vars

\* ------------------------------------- runs that follow the comparison
SapCmpRows ==
    {SapRow(d, <<"Alice">>, h, <<"Work">>, <<"R1">>, <<"S1">>, Txt0800, Txt1600) :
        d \in {Txt10Jan24, Txt29Feb24}, h \in {Txt5H, Txt8H}}

ZalarisCmpRows ==
    {ZalarisRow(d, <<"Alice">>, h, <<"800">>, Txt11Jan24) :
        d \in {Txt10Jan24, Txt29Feb24}, h \in {Txt5, Txt8}}
    \cup {ZalarisRow(Txt10Jan24, <<"Bob">>, Txt5, <<"810">>, NaN)}

CmpFiles(s) ==
    {OkFile(s, rows) :
        rows \in SeqsUpTo(IF s = "SAP" THEN SapCmpRows ELSE ZalarisCmpRows, MaxCmpRows)}

ReadForComparison == ReadFrom(CmpFiles(source))

NextCompare ==
    \/ ReadForComparison
    \/ CreatePivot
    \/ SaveDaily
    \/ CalculateMonthly
    \/ SaveMonthly
    \/ StoreResults
    \/ CompareHours
    \/ SaveComparison

SpecCompare == Init /\ [][NextCompare]_vars

\* ----------------------------------------------------------- properties
Range(f) == {f[i] : i \in DOMAIN f}

Least(S) == CHOOSE j \in S : \A k \in S : j <= k

\* The Monday-to-Friday days of a month, day 1 through its last day.
WeekdaysOfMonth(y, m) == {d \in 1..DaysInMonth(y, m) : Weekday(y, m, d) < 5}

\* C1: every row of the monthly table has WorkingDays equal to the number of
\* Monday-to-Friday days from day 1 through the last day of its month, both
\* included.
C1_WorkingDaysWholeMonth ==
    \A i \in 1..Len(monthly_df) :
        monthly_df[i].WorkingDays
            = Cardinality(WeekdaysOfMonth(monthly_df[i].Year, monthly_df[i].Month))

\* The tables main passes to compare_hours: A is the first, B the second.
TableA == results["SAP_Daily"]

TableB == results["Zalaris_Daily"]

\* compare_hours has returned and its result is in comparison_df.
Compared == pc = "save_comparison"

\* The rows of the result for key k.
ResultRows(k) ==
    {i \in 1..Len(comparison_df) :
        comparison_df[i]["Date"] = <<k[1]>> /\ comparison_df[i]["Employee"] = <<k[2]>>}

\* C2: every key of A that B lacks has a row in the result, with A's hours
\* unchanged and B's hours the sentinel -1.
C2_MissingReportedWithSentinel ==
    Compared =>
        \A k \in KeySet(TableA) \ KeySet(TableB) :
            \E i \in ResultRows(k) :
                /\ comparison_df[i]["Zalaris Hours"] = HoursAt(TableA, k)
                /\ comparison_df[i]["SAP Hours"] = <<-10>>

\* create_pivot has returned and its result is in daily_df.
Pivoted == pc = "save_daily"

\* The (Date, Employee) keys of the rows of a table, missing parts included.
InputKeys(t) == {<<t[i]["Date"], t[i]["Employee"]>> : i \in 1..Len(t)}

\* C3: create_pivot neither drops nor duplicates rows: the Hours of its output
\* sum to the Hours of the input rows that have one, and the output has one row
\* for each distinct (Date, Employee) key of the input.
C3_PivotConservesHours ==
    Pivoted =>
        /\ SumHours(daily_df) = SumHours(df)
        /\ Len(daily_df) = Cardinality(InputKeys(df))

\* C4: a key of both tables has a row in the result exactly when the two Hours
\* differ; the row has Comparison 1 exactly when A's hours are the higher and
\* 2 exactly when they are the lower; no row of the result has Comparison 0.
C4_CommonKeysClassified ==
    Compared =>
        /\ \A k \in KeySet(TableA) \cap KeySet(TableB) :
            LET a == Val(HoursAt(TableA, k))
                b == Val(HoursAt(TableB, k))
            IN  /\ (ResultRows(k) # {}) <=> (a # b)
                /\ Cardinality(ResultRows(k)) <= 1
                /\ \A i \in ResultRows(k) :
                    /\ (comparison_df[i]["Comparison"] = 1) <=> (a > b)
                    /\ (comparison_df[i]["Comparison"] = 2) <=> (a < b)
        /\ \A i \in 1..Len(comparison_df) : comparison_df[i]["Comparison"] # 0

C4_Witness ==
    /\ Compared
    /\ \E j, k \in KeySet(TableA) \cap KeySet(TableB) :
        /\ Val(HoursAt(TableA, j)) > Val(HoursAt(TableB, j))
        /\ HoursAt(TableA, k) = HoursAt(TableB, k)
        /\ ResultRows(j) # {}

\* The rows of df in the group of a row of the daily table.
GroupOf(drow) ==
    {j \in 1..Len(df) : df[j]["Date"] = drow["Date"] /\ df[j]["Employee"] = drow["Employee"]}

\* The rows of the group whose value in column c is not missing.
ValidIn(drow, c) == {j \in GroupOf(drow) : ~IsNa(df[j][c])}

\* The value of column c in a row of the daily table, missing when the table
\* has no such column.
Output(drow, c) == IF c \in DOMAIN drow THEN drow[c] ELSE NaN

\* C5 as amended: the output value of a first-wins column is the first value
\* of the group, in input row order, that is not missing; it is missing only
\* when every row of the group lacks the value, and the table has the column
\* exactly when some row with a whole key has a value.
C5_FirstNonMissing ==
    Pivoted =>
        \A i \in 1..Len(daily_df) : \A c \in FirstColumns(is_sap) :
            /\ IF ValidIn(daily_df[i], c) = {}
               THEN IsNa(Output(daily_df[i], c))
               ELSE Output(daily_df[i], c) = df[Least(ValidIn(daily_df[i], c))][c]
            /\ c \in DOMAIN daily_df[i]
                <=> \E j \in 1..Len(df) : HasKey(df[j]) /\ ~IsNa(df[j][c])

\* C5 as stated: the output value of a first-wins column is the value of the
\* first row of the group in input row order, missing or not.
C5_FirstRowValue ==
    Pivoted =>
        \A i \in 1..Len(daily_df) : \A c \in FirstColumns(is_sap) :
            Output(daily_df[i], c) = df[Least(GroupOf(daily_df[i]))][c]

C5_Witness ==
    /\ Pivoted
    /\ \E i \in 1..Len(daily_df) : \E c \in FirstColumns(is_sap) :
        /\ ValidIn(daily_df[i], c) # {}
        /\ Least(ValidIn(daily_df[i], c)) # Least(GroupOf(daily_df[i]))

\* read_and_preprocess has read a well-formed Zalaris file: the header is
\* whole and every Date parses.
ZalarisWellFormed ==
    /\ raw.path = InputPath("Zalaris")
    /\ raw.status = "ok"
    /\ validate_columns(raw.columns, ZalarisRequired) = {}
    /\ \A i \in 1..Len(raw.rows) : ~DateCellRaises(raw.rows[i]["Date"])

BadApproval(i) == DateCellRaises(raw.rows[i]["Approval date"])

ZalarisReturned == <<"read_and_preprocess", "Zalaris">> \in Range(trace)

C7_HoursNonNegative ==
    \A i \in 1..Len(df) : IsNa(df[i]["Hours"]) \/ Val(df[i]["Hours"]) >= 0

\* The file read last cannot be processed: it is absent, empty or malformed,
\* lacks a required column, or has a Date that does not parse.
FatalInput ==
    /\ raw # NoFile
    /\ \/ raw.status # "ok"
       \/ validate_columns(raw.columns, required_columns(raw.path = InputPath("SAP"))) # {}
       \/ \E i \in 1..Len(raw.rows) : DateCellRaises(raw.rows[i]["Date"])

\* The calls of a run that reaches line 161, in order.
WholeTrace ==
    <<<<"read_and_preprocess", "SAP">>, <<"create_pivot", "SAP">>, <<"save_daily", "SAP">>,
      <<"calculate_monthly_hours", "SAP">>, <<"save_monthly", "SAP">>,
      <<"read_and_preprocess", "Zalaris">>, <<"create_pivot", "Zalaris">>,
      <<"save_daily", "Zalaris">>, <<"calculate_monthly_hours", "Zalaris">>,
      <<"save_monthly", "Zalaris">>, <<"compare_hours", "both">>>>

\* C8: there is no partial success. A fatal input and every logged error end
\* the run with exit status 1; the run ends with status 0 only when the
\* comparison is written; and the comparison is written only after the steps
\* of both sources and their four writes, those of SAP before those of Zalaris.
C8_NoPartialSuccess ==
    /\ FatalInput => pc = "exit"
    /\ (\E i \in 1..Len(log) : log[i].level = "error") => pc = "exit"
    /\ pc = "exit" => exitCode = <<1>>
    /\ pc # "exit" /\ pc # "done" => exitCode = NaN
    /\ pc = "done" =>
        /\ exitCode = <<0>>
        /\ written[Len(written)] = ComparisonPath
    /\ ComparisonPath \in Range(written) =>
        /\ written = <<PivotPath("SAP"), MonthlyPath("SAP"), PivotPath("Zalaris"),
                       MonthlyPath("Zalaris"), ComparisonPath>>
        /\ trace = Append(WholeTrace, <<"save_comparison", "both">>)
        /\ DOMAIN results = {"SAP_Daily", "SAP_Monthly", "Zalaris_Daily", "Zalaris_Monthly"}

C8_Witness ==
    /\ pc = "done"
    /\ ComparisonPath \in Range(written)

\* C9: a key that only B has gets no row in the result.
C9_OnlyInBNeverReported ==
    Compared => \A k \in KeySet(TableB) \ KeySet(TableA) : ResultRows(k) = {}

C9_Witness ==
    /\ Compared
    /\ KeySet(TableB) \ KeySet(TableA) # {}
    /\ comparison_df # << >>

\* C10: in every row of the comparison the column 'Zalaris Hours' holds the
\* Hours of the Zalaris daily table for the key and the column 'SAP Hours'
\* those of the SAP daily table.
C10_ColumnsNameTheirSource ==
    Compared =>
        \A i \in 1..Len(comparison_df) :
            LET k == <<Val(comparison_df[i]["Date"]), Val(comparison_df[i]["Employee"])>>
            IN  /\ comparison_df[i]["Zalaris Hours"] = HoursAt(results["Zalaris_Daily"], k)
                /\ comparison_df[i]["SAP Hours"] = HoursAt(results["SAP_Daily"], k)

====
